---- MODULE Spec2Model ----
(***************************************************************************)
(* DjAI: model-service records (GoogleTranslate, the pre-trained Hugging   *)
(* Face text and audio classifiers) and dataset record declarations.       *)
(*                                                                         *)
(* Spec      single-threaded use: every load / predict call runs to its    *)
(*           end before the next one starts.                               *)
(* SpecConc  two threads call load / predict on one GoogleTranslate        *)
(*           instance; a thread switch may fall between any two steps.     *)
(* SpecDef   process start: the class statements of the record types run,  *)
(*           module by module, and the ORM registers the tables.           *)
(* SpecUI    a user opens the gradio form of a model-service type, fills   *)
(*           its input components and submits; gradio calls the wrapped    *)
(*           function with the values of the components.                   *)
(***************************************************************************)
EXTENDS Integers, Sequences, FiniteSets, TLC

\* Longest sequence handed to predict.
MaxLen == 2

-----------------------------------------------------------------------------
(* Python values.                                                          *)
(* A str is a sequence of characters; an input to predict is a record      *)
(* [type, items]: for type "str" (and "ndarray": a sequence of samples)    *)
(* items holds the one value, for "list" and "tuple" it holds the elements.*)

\* `client = None`: the unset handle; a constructed object is a positive id.
None == 0

NoError == "NoError"
Errors == {"ConnectError", "ValueError"}

Texts == {<<"h", "i">>, <<"y">>}

RECURSIVE SeqsUpTo(_, _)
SeqsUpTo(S, n) ==
    IF n = 0 THEN {<<>>}
    ELSE LET shorter == SeqsUpTo(S, n - 1)
         IN shorter \cup {Append(s, e) : s \in {t \in shorter : Len(t) = n - 1}, e \in S}

StrInputs == {[type |-> "str", items |-> <<t>>] : t \in Texts}
SeqInputs(S) == {[type |-> ty, items |-> s] : ty \in {"list", "tuple"}, s \in SeqsUpTo(S, MaxLen)}
TextInputs == StrInputs \cup SeqInputs(Texts)

AudioInputs ==
    {[type |-> ty, items |-> <<a>>] : ty \in {"ndarray", "str"}, a \in Texts}
        \cup SeqInputs(Texts)

\* Iterating a Python value: a str yields its characters (each a str of
\* length one), an ndarray its samples, a list or tuple its elements.
Iter(x) ==
    IF x.type \in {"str", "ndarray"}
    THEN [j \in 1..Len(x.items[1]) |-> <<x.items[1][j]>>]
    ELSE x.items

-----------------------------------------------------------------------------
(* The googletrans SDK, as GoogleTranslate uses it.                        *)

Omitted == "omitted"

\* Translator.translate(text, dest, src).text: a string that depends on the
\* text and on both languages.
Translated(call) == <<call.src, call.dest>> \o call.text

-----------------------------------------------------------------------------
(* The transformers pipelines, as the two classifiers use them. A pipeline *)
(* yields a list of {label, score} entries per input item; it takes a list *)
(* as one item per element and anything else as one item.                  *)

NoArg == -1

\* A mapping that keeps the first score of a label.
DictOf_first(entries) ==
    [l \in {entries[j].label : j \in DOMAIN entries} |->
        LET js == {j \in DOMAIN entries : entries[j].label = l}
            jmin == CHOOSE j \in js : \A k \in js : j <= k
        IN entries[jmin].score]

\* A dict comprehension {i['label']: i['score'] for i in entries}: a later
\* entry replaces an earlier one with the same label.
DictOf(entries) ==
    [l \in {entries[j].label : j \in DOMAIN entries} |->
        LET js == {j \in DOMAIN entries : entries[j].label = l}
            jmax == CHOOSE j \in js : \A k \in js : k <= j
        IN entries[jmax].score]

\* One entry per class id of the model; a model configuration may give two
\* ids the same label, as the one answering here does for a one-letter text.
TextScores(text) ==
    << [label |-> "NEGATIVE", score |-> Len(text)],
       [label |-> "POSITIVE", score |-> 9 - Len(text)] >>
        \o (IF Len(text) = 1 THEN << [label |-> "NEGATIVE", score |-> 4] >> ELSE <<>>)

\* pipeline(inputs, return_all_scores=True, function_to_apply=None): a list
\* with one list of entries per item.
text_pipeline(call) ==
    IF call.inputs.type = "list"
    THEN [j \in DOMAIN call.inputs.items |-> TextScores(call.inputs.items[j])]
    ELSE IF call.inputs.type = "str"
    THEN << TextScores(call.inputs.items[1]) >>
    ELSE << TextScores(<<>>) >>

AudioScores(audio, top_k) ==
    LET all == << [label |-> "dog", score |-> 7 + Len(audio)],
                  [label |-> "cat", score |-> 5],
                  [label |-> "bird", score |-> 3 - Len(audio)] >>
    IN SubSeq(all, 1, IF top_k < Len(all) THEN top_k ELSE Len(all))

\* pipeline(inputs=..., top_k=...): the entries of a single item, or a list
\* with one list of entries per element of a list.
audio_pipeline(call) ==
    IF call.inputs.type = "list"
    THEN [j \in DOMAIN call.inputs.items |-> AudioScores(call.inputs.items[j], call.top_k)]
    ELSE IF call.inputs.type \in {"str", "ndarray"}
    THEN AudioScores(call.inputs.items[1], call.top_k)
    ELSE AudioScores(<<>>, call.top_k)

-----------------------------------------------------------------------------
VARIABLES
    client,        \* GoogleTranslate, and each of its instances -> what
                   \* `client` evaluates to on it
    native_obj,    \* classifier instance -> its pipeline handle
    constructed,   \* instance -> number of clients / pipelines constructed for it
    last,          \* the last call that ran to its end, as its caller saw it
    pc,            \* SpecConc: thread -> where it is in load / predict
    frame,         \* SpecConc: thread -> the locals of its running call
    classes,       \* SpecDef: name of a defined record class -> its ORM options
    tables,        \* SpecDef: name of a table-mapped record class -> its table name
    failed,        \* SpecDef: the class statements that raised
    ui             \* SpecUI: the gradio form that is open, and its last call

defVars == <<classes, tables, failed>>
vars == <<client, native_obj, constructed, last, pc, frame, classes, tables, failed, ui>>

Threads == {"t1", "t2"}

GTInstances == {"gt1", "gt2"}
HFInstances == {"tc", "ac"}

NoCall == [op |-> "none"]

-----------------------------------------------------------------------------
(* GoogleTranslate                                                         *)

\* `not self.client` is false for a constructed Translator.
Truthy(h) == h # None

\* A load that constructs a client on every call.
load_needs_client_always(c) == TRUE

\* The test of GoogleTranslate.load: `if not self.client`.
load_needs_client(c) == ~Truthy(c)

\* GoogleTranslate.load: `if not self.client: self.client = Translator()`.
\* fresh is the object Translator() would return, cok whether it returns.
load(c, fresh, cok) ==
    IF load_needs_client(c)
    THEN IF cok
         THEN [client |-> fresh, built |-> 1, raised |-> FALSE]
         ELSE [client |-> c, built |-> 0, raised |-> TRUE]
    ELSE [client |-> c, built |-> 0, raised |-> FALSE]

\* The class itself, which holds the default `client = None`.
GTClass == "GoogleTranslate"

\* An assignment to the attribute of the class, which every instance
\* without an attribute of its own then reads.
store_client_on_class(cm, i, obj) == [k \in DOMAIN cm |-> obj]

\* `self.client = obj`: an attribute of the instance.
store_client(cm, i, obj) == [cm EXCEPT ![i] = obj]

\* A test that takes no input for a single string.
isinstance_str_never(x) == FALSE

\* isinstance(text_or_texts, str)
isinstance_str(x) == x.type = "str"

\* The two languages handed over in each other's place.
translate_call_swapped(text, src, dest) == [text |-> text, dest |-> src, src |-> dest]

\* The keyword arguments of one self.client.translate(...) call.
translate_call(text, src, dest) == [text |-> text, dest |-> dest, src |-> src]

\* A predict that catches the SDK's exception and returns nothing.
propagate_swallowed(err) ==
    [outcome |-> "returned", error |-> NoError, result |-> [kind |-> "none", items |-> <<>>]]

\* An exception leaving predict: there is no try/except around the SDK call.
propagate(err) == [outcome |-> "raised", error |-> err, result |-> [kind |-> "none", items |-> <<>>]]

\* The value of the return expression, from the translated strings.
predict_return(single, outs) ==
    IF single
    THEN [outcome |-> "returned", error |-> NoError, result |-> [kind |-> "str", items |-> <<outs[1]>>]]
    ELSE [outcome |-> "returned", error |-> NoError, result |-> [kind |-> "list", items |-> outs]]

\* Texts taken by iterating the argument whatever its type.
predict_texts_iterated(x) == Iter(x)

\* The texts translate is called for, in call order.
predict_texts(x) == IF isinstance_str(x) THEN x.items ELSE Iter(x)

\* A loop that goes on to the remaining texts after a call has raised.
translate_calls_made_all(n, failAt) == n

\* The number of translate calls made for n texts: the list comprehension
\* ends with the first call that raises.
translate_calls_made(n, failAt) == IF failAt \in 1..n THEN failAt ELSE n

\* GoogleTranslate.predict. failAt = k > 0: the k-th translate call raises
\* err (no call raises when k exceeds the number of calls).
GoogleTranslate_predict(c, fresh, cok, x, src, dest, failAt, err) ==
    LET l == load(c, fresh, cok)
        texts == predict_texts(x)
        fails == failAt \in 1..Len(texts)
        ncalls == translate_calls_made(Len(texts), failAt)
        calls == [j \in 1..ncalls |-> translate_call(texts[j], src, dest)]
        outs == [j \in 1..Len(texts) |-> Translated(translate_call(texts[j], src, dest))]
    IN  IF l.raised
        THEN [client |-> l.client, built |-> l.built, calls |-> <<>>,
              sdk_error |-> err, via |-> c, ret |-> propagate(err)]
        ELSE IF fails
        THEN [client |-> l.client, built |-> l.built, calls |-> calls,
              sdk_error |-> err, via |-> l.client, ret |-> propagate(err)]
        ELSE [client |-> l.client, built |-> l.built, calls |-> calls,
              sdk_error |-> NoError, via |-> l.client,
              ret |-> predict_return(isinstance_str(x), outs)]

\* A destination default that is not the declared one.
dest_or_default_auto(dest) == IF dest = Omitted THEN "auto" ELSE dest

\* Default parameter values of GoogleTranslate.predict.
src_or_default(src) == IF src = Omitted THEN "auto" ELSE src
dest_or_default(dest) == IF dest = Omitted THEN "en" ELSE dest

-----------------------------------------------------------------------------
(* The two classifiers                                                     *)

\* PreTrainedHuggingFaceTransformer.load: the pipeline handle is built on
\* first use and kept.
hf_load(h, fresh, cok) ==
    IF h = None
    THEN IF cok
         THEN [client |-> fresh, built |-> 1, raised |-> FALSE]
         ELSE [client |-> h, built |-> 0, raised |-> TRUE]
    ELSE [client |-> h, built |-> 0, raised |-> FALSE]

\* isinstance(x, list)
isinstance_list(x) == x.type = "list"

\* isinstance(audio_or_audios, (numpy.ndarray, str))
isinstance_ndarray_or_str(x) == x.type \in {"ndarray", "str"}

\* list(x)
to_list_reversed(x) ==
    [type |-> "list", items |-> [j \in 1..Len(Iter(x)) |-> Iter(x)[Len(Iter(x)) + 1 - j]]]

to_list(x) == [type |-> "list", items |-> Iter(x)]

\* The input handed on as it came, a tuple left a tuple.
normalize_unconverted(single, x) == x

\* `if not (single or isinstance(x, list)): x = list(x)`
normalize(single, x) == IF ~(single \/ isinstance_list(x)) THEN to_list(x) ELSE x

returned(kind, items) ==
    [outcome |-> "returned", error |-> NoError, result |-> [kind |-> kind, items |-> items]]

\* The return expression of PreTrainedHuggingFaceTextClassifier.predict.
text_return(single_text, output) ==
    IF single_text
    THEN returned("dict", << DictOf(output[1]) >>)
    ELSE returned("list", [j \in DOMAIN output |-> DictOf(output[j])])

\* The return expression of PreTrainedHuggingFaceAudioClassifier.predict.
audio_return(single_audio, output) ==
    IF single_audio
    THEN returned("dict", << DictOf(output) >>)
    ELSE returned("list", [j \in DOMAIN output |-> DictOf(output[j])])

\* What a classifier's predict does once the input is normalized: load,
\* one pipeline call, the return expression. fail: the pipeline call raises.
\* output: what the pipeline call yields when it returns.
classify(h, fresh, cok, call, fail, err, output, ret) ==
    LET l == hf_load(h, fresh, cok)
    IN  IF l.raised
        THEN [client |-> l.client, built |-> l.built, calls |-> <<>>, output |-> <<>>,
              sdk_error |-> err, via |-> h, ret |-> propagate(err)]
        ELSE IF fail
        THEN [client |-> l.client, built |-> l.built, calls |-> <<call>>, output |-> <<>>,
              sdk_error |-> err, via |-> l.client, ret |-> propagate(err)]
        ELSE [client |-> l.client, built |-> l.built, calls |-> <<call>>, output |-> output,
              sdk_error |-> NoError, via |-> l.client, ret |-> ret]

\* PreTrainedHuggingFaceTextClassifier.predict
TextClassifier_predict(h, fresh, cok, x, fail, err) ==
    LET single_text == isinstance_str(x)
        call == [inputs |-> normalize(single_text, x),
                 return_all_scores |-> TRUE, function_to_apply |-> "None"]
        output == text_pipeline(call)
    IN classify(h, fresh, cok, call, fail, err, output, text_return(single_text, output))

\* Default parameter value of PreTrainedHuggingFaceAudioClassifier.predict.
n_labels_or_default(n_labels) == IF n_labels = NoArg THEN 5 ELSE n_labels

\* PreTrainedHuggingFaceAudioClassifier.predict
AudioClassifier_predict(h, fresh, cok, x, n_labels, fail, err) ==
    LET single_audio == isinstance_ndarray_or_str(x)
        call == [inputs |-> normalize(single_audio, x), top_k |-> n_labels]
        output == audio_pipeline(call)
    IN classify(h, fresh, cok, call, fail, err, output, audio_return(single_audio, output))

-----------------------------------------------------------------------------
(* load and predict step by step, for threads that share the instances.    *)

self == "gt1"

ConcInstances == {"gt1", "tc", "ac"}

NoFrame == [op |-> "none", inst |-> "none", ncalls |-> 0, done |-> 0, obj |-> None,
            via |-> None, loaded |-> FALSE, sdk_raised |-> FALSE]

ConcInputs ==
    { [type |-> "str", items |-> << <<"y">> >>],
      [type |-> "list", items |-> <<>>],
      [type |-> "list", items |-> << <<"h", "i">>, <<"y">> >>] }

\* A predict that goes to the SDK call without `self.load()`.
predict_entry_without_load == "invoke"

\* predict's first statement after the input is normalized is `self.load()`.
predict_entry == "check"

\* Where a call goes on once load is through.
after_load(op) == IF op = "load" THEN "returned" ELSE "invoke"

\* The SDK calls of one predict: a translate call per text, one pipeline call.
sdk_calls(inst, x) == IF inst \in GTInstances THEN Len(predict_texts(x)) ELSE 1

-----------------------------------------------------------------------------
(* Record declarations                                                     *)

\* djai.util.PGSQL_IDENTIFIER_MAX_LEN
PGSQL_IDENTIFIER_MAX_LEN == 63

\* DjAIDataModuleConfig.label and DjAIModelModuleConfig.label
AppLabel(app) == IF app = "data" THEN "DjAIData" ELSE "DjAIModel"

\* Longest name of a record type other than the repository's own.
MaxNameLen == 55

RECURSIVE Rep(_, _)
Rep(c, n) == IF n = 0 THEN "" ELSE c \o Rep(c, n - 1)

\* Names that bring the table name just below, onto and over the limit.
OtherNames == {Rep("X", n) : n \in (PGSQL_IDENTIFIER_MAX_LEN - 10)..MaxNameLen}

NoTable == ""

\* The record classes the declarations build on (djai's base modules).
BaseClasses == {"DataSet", "_FileDataSetABC", "CloudAIService",
                "PreTrainedHuggingFaceTransformer"}
BaseOptions(b) ==
    [abstract |-> TRUE, db_table |-> NoTable,
     columns |-> {b \o ".columns"}, operations |-> {b \o ".operations"}]

\* A class statement: the class name, its app, its bases, the class whose
\* Meta its Meta extends, what the Meta body sets, and what the class body
\* adds. The Meta's __qualname__ is <<name, "Meta">>, its dotted path.
Declaration(name, app, bases, meta_of, abstract, db_table, columns, operations) ==
    [name |-> name, app |-> app, bases |-> bases, meta_of |-> meta_of,
     abstract |-> abstract, db_table |-> db_table,
     columns |-> columns, operations |-> operations,
     qualname |-> <<name, "Meta">>]

InDBJSONDataSet ==
    Declaration("InDBJSONDataSet", "data", {"DataSet"}, "DataSet",
                FALSE, TRUE, {"in_db_json"}, {})
FileDataSetWithInDBJSONCacheABC ==
    Declaration("_FileDataSetWithInDBJSONCacheABC", "data",
                {"InDBJSONDataSet", "_FileDataSetABC"}, "InDBJSONDataSet",
                TRUE, FALSE, {}, {})
JSONDataSet ==
    Declaration("JSONDataSet", "data", {"_FileDataSetWithInDBJSONCacheABC"},
                "_FileDataSetWithInDBJSONCacheABC", TRUE, FALSE, {}, {})
\* CSVDataSet with `abstract = True` left out of its Meta.
CSVDataSet_concrete ==
    Declaration("CSVDataSet", "data", {"_FileDataSetABC"}, "_FileDataSetABC",
                FALSE, FALSE, {}, {})

CSVDataSet ==
    Declaration("CSVDataSet", "data", {"_FileDataSetABC"}, "_FileDataSetABC",
                TRUE, FALSE, {}, {})
ImageDataSet ==
    Declaration("ImageDataSet", "data", {"_FileDataSetABC"}, "_FileDataSetABC",
                TRUE, FALSE, {}, {})
ParquetDataSet ==
    Declaration("ParquetDataSet", "data", {"_FileDataSetABC"}, "_FileDataSetABC",
                TRUE, FALSE, {}, {})
VideoDataSet ==
    Declaration("VideoDataSet", "data", {"_FileDataSetABC"}, "_FileDataSetABC",
                TRUE, FALSE, {}, {})
GoogleTranslate ==
    Declaration("GoogleTranslate", "model", {"CloudAIService"}, "CloudAIService",
                FALSE, TRUE, {}, {"load", "predict", "gradio_ui"})
PreTrainedHuggingFaceTextClassifier ==
    Declaration("PreTrainedHuggingFaceTextClassifier", "model",
                {"PreTrainedHuggingFaceTransformer"}, "PreTrainedHuggingFaceTransformer",
                FALSE, TRUE, {}, {"predict", "gradio_ui"})
PreTrainedHuggingFaceAudioClassifier ==
    Declaration("PreTrainedHuggingFaceAudioClassifier", "model",
                {"PreTrainedHuggingFaceTransformer"}, "PreTrainedHuggingFaceTransformer",
                FALSE, TRUE, {}, {"predict", "gradio_ui"})

Declarations ==
    {InDBJSONDataSet, FileDataSetWithInDBJSONCacheABC, JSONDataSet, CSVDataSet,
     ImageDataSet, ParquetDataSet, VideoDataSet, GoogleTranslate,
     PreTrainedHuggingFaceTextClassifier, PreTrainedHuggingFaceAudioClassifier}

\* A further table-mapped record type, its Meta written as the repository
\* writes it.
OtherRecordType(name, app) ==
    Declaration(name, app,
                {IF app = "data" THEN "DataSet" ELSE "CloudAIService"},
                IF app = "data" THEN "DataSet" ELSE "CloudAIService",
                FALSE, TRUE, {}, {})

\* The last part of the path instead of the first.
split_last(qualname) == qualname[Len(qualname)]

\* `__qualname__.split(sep='.', maxsplit=1)[0]`: the path up to its first dot.
split_first(qualname) == Head(qualname)

\* `db_table = f'{<AppConfig>.label}_{__qualname__.split(...)[0]}'`
db_table(label, qualname) == label \o "_" \o split_first(qualname)

\* The Meta body without its check.
table_name_unchecked(name) == TRUE

\* `assert len(db_table) <= PGSQL_IDENTIFIER_MAX_LEN, ValueError(...)`
table_name_ok(name) == Len(name) <= PGSQL_IDENTIFIER_MAX_LEN

\* The ORM reads `abstract` off the class's own Meta: it resets the flag on
\* the Meta of an abstract class, so that it is not inherited.
is_abstract(d) == d.abstract

-----------------------------------------------------------------------------
(* The gradio descriptors. A parameter is [name, has_default]; an input    *)
(* component is [component, label, param, choices, default], where param   *)
(* is the parameter its label speaks of.                                   *)

NoForm == [stage |-> "closed"]

Services == {"GoogleTranslate", "TextClassifier", "AudioClassifier"}

Parameter(name, has_default) == [name |-> name, has_default |-> has_default]

\* The parameters of the function each descriptor passes as fn: cls.predict
\* is the plain function of the class, `self` included; for the audio
\* classifier fn is the local _predict.
fn_parameters(svc) ==
    CASE svc = "GoogleTranslate" ->
           << Parameter("self", FALSE), Parameter("text_or_texts", FALSE),
              Parameter("src", TRUE), Parameter("dest", TRUE) >>
      [] svc = "TextClassifier" ->
           << Parameter("self", FALSE), Parameter("text_or_texts", FALSE) >>
      [] svc = "AudioClassifier" ->
           << Parameter("self", FALSE),
              Parameter("sampling_rate_and_double_channel_audio_array", FALSE),
              Parameter("n_labels", TRUE) >>

\* tuple(LANGUAGES.values()): the language names googletrans knows.
languages == {"english", "french", "german"}

\* What a Textbox can hold: '' or a typed text.
TextboxChoices == {<<>>} \cup Texts

\* An Audio component of type 'numpy': (sampling rate, samples), or no file.
NoUpload == [rate |-> 0, samples |-> <<>>]
Uploads == {[rate |-> r, samples |-> a] : r \in {16000, 44100}, a \in Texts}

\* The `inputs` of each descriptor.
inputs(svc) ==
    CASE svc = "GoogleTranslate" ->
           << [component |-> "Textbox", label |-> "Text to Translate",
               param |-> "text_or_texts", choices |-> TextboxChoices, default |-> <<>>],
              [component |-> "Dropdown", label |-> "Source Language",
               param |-> "src", choices |-> {"auto"} \cup languages, default |-> "auto"],
              [component |-> "Dropdown", label |-> "Destination Language",
               param |-> "dest", choices |-> languages, default |-> "english"] >>
      [] svc = "TextClassifier" ->
           << [component |-> "Textbox", label |-> "Text to Classify",
               param |-> "text_or_texts", choices |-> TextboxChoices, default |-> <<>>] >>
      [] svc = "AudioClassifier" ->
           << [component |-> "Audio", label |-> "Audio to Classify",
               param |-> "sampling_rate_and_double_channel_audio_array",
               choices |-> Uploads, default |-> NoUpload],
              [component |-> "Slider", label |-> "No. of Labels to Return",
               param |-> "n_labels", choices |-> 3..10, default |-> 5] >>

\* gradio_ui: Interface(fn=..., inputs=..., ...)
gradio_ui(svc) == [fn |-> fn_parameters(svc), inputs |-> inputs(svc)]

\* Python binds the n positional arguments of fn(*args) to the first n
\* parameters; a call with too many arguments, or one that leaves a
\* parameter without a default unbound, raises TypeError. bound[j] is the
\* name of the parameter that receives the j-th argument.
bind(params, n) ==
    IF n > Len(params) \/ \E j \in (n + 1)..Len(params) : ~params[j].has_default
    THEN [ok |-> FALSE, bound |-> <<>>]
    ELSE [ok |-> TRUE, bound |-> [j \in 1..n |-> params[j].name]]

\* The first statement of fn that uses the value bound to `self` (or, in
\* _predict, unpacks its second parameter), when that value comes from a
\* form and not from a record: a str has no load(), an int is not a pair.
fn_body_error(svc) == IF svc = "AudioClassifier" THEN "TypeError" ELSE "AttributeError"

\* gradio runs fn(*values).
call_fn(svc, n) ==
    LET b == bind(gradio_ui(svc).fn, n)
    IN  [bound |-> b.bound, outcome |-> "raised",
         error |-> IF b.ok THEN fn_body_error(svc) ELSE "TypeError"]

-----------------------------------------------------------------------------
Init ==
    /\ client = [i \in GTInstances \cup {GTClass} |-> None]
    /\ native_obj = [i \in HFInstances |-> None]
    /\ constructed = [i \in GTInstances \cup HFInstances |-> 0]
    /\ last = NoCall
    /\ pc = [t \in Threads |-> "idle"]
    /\ frame = [t \in Threads |-> NoFrame]
    /\ classes = [b \in BaseClasses |-> BaseOptions(b)]
    /\ tables = <<>>
    /\ failed = {}
    /\ ui = NoForm

\* The language arguments a caller passes.
LanguageArgs == {Omitted, "en"} \X {Omitted, "fr"}

\* What the SDK does during one predict call on n items through handle h:
\* every call returns, or the constructor raises, or the k-th call raises.
SdkOutcomes(h, n) ==
    {[cok |-> TRUE, failAt |-> 0, err |-> NoError]}
        \cup {[cok |-> FALSE, failAt |-> 0, err |-> e] : e \in (IF h = None THEN Errors ELSE {})}
        \cup {[cok |-> TRUE, failAt |-> k, err |-> e] : k \in 1..n, e \in Errors}

\* Calls do not overlap: a call starts when the caller holds no result.
Idle == last.op = "none"

\* Whether a constructor call would return (TRUE) or raise (FALSE); nothing
\* is constructed once the handle is set.
ConstructionOutcomes(h) == IF h = None THEN BOOLEAN ELSE {TRUE}

\* A caller runs inst.load().
Load(i) ==
    \E cok \in ConstructionOutcomes(client[i]) :
        LET l == load(client[i], constructed[i] + 1, cok)
        IN  /\ Idle
            /\ client' = (IF l.built = 1 THEN store_client(client, i, l.client) ELSE client)
            /\ constructed' = [constructed EXCEPT ![i] = @ + l.built]
            /\ UNCHANGED <<native_obj, pc, frame, defVars, ui>>
            /\ last' = [op |-> "load", svc |-> "GoogleTranslate", inst |-> i,
                        pre |-> client[i],
                        outcome |-> IF l.raised THEN "raised" ELSE "returned"]

\* A caller runs inst.predict(x, src, dest) on a GoogleTranslate record.
Predict(i) ==
    \E x \in TextInputs, langs \in LanguageArgs :
      \E o \in SdkOutcomes(client[i], Len(x.items)) :
        LET src == langs[1]
            dest == langs[2]
            r == GoogleTranslate_predict(client[i], constructed[i] + 1, o.cok, x,
                                         src_or_default(src), dest_or_default(dest),
                                         o.failAt, o.err)
        IN  /\ Idle
            /\ client' = (IF r.built = 1 THEN store_client(client, i, r.client) ELSE client)
            /\ constructed' = [constructed EXCEPT ![i] = @ + r.built]
            /\ UNCHANGED <<native_obj, pc, frame, defVars, ui>>
            /\ last' = [op |-> "predict", svc |-> "GoogleTranslate", inst |-> i,
                        pre |-> client[i], input |-> x, src |-> src, dest |-> dest,
                        fail_at |-> o.failAt,
                        calls |-> r.calls, via |-> r.via, sdk_error |-> r.sdk_error,
                        outcome |-> r.ret.outcome, error |-> r.ret.error,
                        result |-> r.ret.result]

\* What the caller of a classifier's predict saw.
Classified(svc, i, x, n_labels, r) ==
    /\ Idle
    /\ native_obj' = [native_obj EXCEPT ![i] = r.client]
    /\ constructed' = [constructed EXCEPT ![i] = @ + r.built]
    /\ last' = [op |-> "predict", svc |-> svc, inst |-> i,
                pre |-> native_obj[i], input |-> x, n_labels |-> n_labels,
                calls |-> r.calls, output |-> r.output, via |-> r.via,
                sdk_error |-> r.sdk_error,
                outcome |-> r.ret.outcome, error |-> r.ret.error,
                result |-> r.ret.result]
    /\ UNCHANGED <<client, pc, frame, defVars, ui>>

\* A caller runs predict(x) on the text classifier record.
PredictText ==
    \E x \in TextInputs, o \in SdkOutcomes(native_obj["tc"], 1) :
        Classified("TextClassifier", "tc", x, NoArg,
                   TextClassifier_predict(native_obj["tc"], constructed["tc"] + 1,
                                          o.cok, x, o.failAt = 1, o.err))

\* A caller runs predict(x) or predict(x, n_labels) on the audio classifier
\* record.
PredictAudio ==
    \E x \in AudioInputs, n_labels \in {NoArg, 1, 2}, o \in SdkOutcomes(native_obj["ac"], 1) :
        Classified("AudioClassifier", "ac", x, n_labels,
                   AudioClassifier_predict(native_obj["ac"], constructed["ac"] + 1,
                                           o.cok, x, n_labels_or_default(n_labels),
                                           o.failAt = 1, o.err))

\* The caller takes the result (or the exception) of the call that ended.
Return ==
    /\ ~Idle
    /\ last' = NoCall
    /\ UNCHANGED <<client, native_obj, constructed, pc, frame, defVars, ui>>

Next ==
    \/ \E i \in GTInstances : Load(i)
    \/ \E i \in GTInstances : Predict(i)
    \/ PredictText
    \/ PredictAudio
    \/ Return

Spec == Init /\ [][Next]_vars

-----------------------------------------------------------------------------
(* SpecConc                                                                *)

\* The handle of an instance: `client`, or the classifiers' pipeline handle.
Handle(inst) == IF inst \in GTInstances THEN client[inst] ELSE native_obj[inst]

\* Thread t calls self.load().
CallLoad(t) ==
    /\ pc[t] = "idle"
    /\ pc' = [pc EXCEPT ![t] = "check"]
    /\ frame' = [frame EXCEPT ![t] = [NoFrame EXCEPT !.op = "load", !.inst = self]]
    /\ UNCHANGED <<client, native_obj, constructed, last, defVars, ui>>

\* Thread t calls predict(x) on one of the shared instances.
CallPredict(t) ==
    \E inst \in ConcInstances, x \in ConcInputs :
        /\ pc[t] = "idle"
        /\ pc' = [pc EXCEPT ![t] = predict_entry]
        /\ frame' = [frame EXCEPT ![t] = [NoFrame EXCEPT !.op = "predict", !.inst = inst,
                                                        !.ncalls = sdk_calls(inst, x)]]
        /\ UNCHANGED <<client, native_obj, constructed, last, defVars, ui>>

\* The test of load: `if not self.client:`
Check(t) ==
    /\ pc[t] = "check"
    /\ IF (IF frame[t].inst \in GTInstances
           THEN load_needs_client(client[frame[t].inst])
           ELSE native_obj[frame[t].inst] = None)
       THEN /\ pc' = [pc EXCEPT ![t] = "construct"]
            /\ UNCHANGED frame
       ELSE /\ pc' = [pc EXCEPT ![t] = after_load(frame[t].op)]
            /\ frame' = [frame EXCEPT ![t].loaded = TRUE]
    /\ UNCHANGED <<client, native_obj, constructed, last, defVars, ui>>

\* `Translator()` (or the pipeline's construction): returns a new object,
\* or raises.
Construct(t) ==
    /\ pc[t] = "construct"
    /\ \E cok \in BOOLEAN :
        IF cok
        THEN /\ constructed' = [constructed EXCEPT ![frame[t].inst] = @ + 1]
             /\ frame' = [frame EXCEPT ![t].obj = constructed[frame[t].inst] + 1]
             /\ pc' = [pc EXCEPT ![t] = "store"]
        ELSE /\ pc' = [pc EXCEPT ![t] = "raised"]
             /\ UNCHANGED <<constructed, frame>>
    /\ UNCHANGED <<client, native_obj, last, defVars, ui>>

\* `self.client = ...`
Store(t) ==
    /\ pc[t] = "store"
    /\ IF frame[t].inst \in GTInstances
       THEN /\ client' = store_client(client, frame[t].inst, frame[t].obj)
            /\ UNCHANGED native_obj
       ELSE /\ native_obj' = [native_obj EXCEPT ![frame[t].inst] = frame[t].obj]
            /\ UNCHANGED client
    /\ frame' = [frame EXCEPT ![t].loaded = TRUE]
    /\ pc' = [pc EXCEPT ![t] = after_load(frame[t].op)]
    /\ UNCHANGED <<constructed, last, defVars, ui>>

\* One `self.client.translate(...)` or pipeline call: it returns, or raises.
\* Through an unset handle there is no SDK call: the lookup on None raises.
Invoke(t) ==
    /\ pc[t] = "invoke"
    /\ frame[t].done < frame[t].ncalls
    /\ IF Truthy(Handle(frame[t].inst))
       THEN \E ok \in BOOLEAN :
              IF ok
              THEN /\ frame' = [frame EXCEPT ![t].done = @ + 1,
                                             ![t].via = Handle(frame[t].inst)]
                   /\ UNCHANGED pc
              ELSE /\ frame' = [frame EXCEPT ![t].via = Handle(frame[t].inst),
                                             ![t].sdk_raised = TRUE]
                   /\ pc' = [pc EXCEPT ![t] = "raised"]
       ELSE /\ pc' = [pc EXCEPT ![t] = "raised"]
            /\ UNCHANGED frame
    /\ UNCHANGED <<client, native_obj, constructed, last, defVars, ui>>

\* predict's return, every SDK call made.
Finish(t) ==
    /\ pc[t] = "invoke"
    /\ frame[t].done = frame[t].ncalls
    /\ pc' = [pc EXCEPT ![t] = "returned"]
    /\ UNCHANGED <<client, native_obj, constructed, last, frame, defVars, ui>>

\* The caller has the result or the exception; the thread is free again.
Leave(t) ==
    /\ pc[t] \in {"returned", "raised"}
    /\ pc' = [pc EXCEPT ![t] = "idle"]
    /\ frame' = [frame EXCEPT ![t] = NoFrame]
    /\ UNCHANGED <<client, native_obj, constructed, last, defVars, ui>>

NextConc ==
    \E t \in Threads :
        \/ CallLoad(t)
        \/ CallPredict(t)
        \/ Check(t)
        \/ Construct(t)
        \/ Store(t)
        \/ Invoke(t)
        \/ Finish(t)
        \/ Leave(t)

SpecConc == Init /\ [][NextConc]_vars

-----------------------------------------------------------------------------
(* SpecDef                                                                 *)

\* The class statement of d runs: the Meta body computes and checks the
\* table name, then the ORM builds the class and, unless it is abstract,
\* maps it to its table. The Meta's db_table is its own or, by attribute
\* lookup, that of the Meta it extends.
Define(d) ==
    /\ failed = {}
    /\ d.name \notin DOMAIN classes
    /\ d.bases \cup {d.meta_of} \subseteq DOMAIN classes
    /\ LET own == db_table(AppLabel(d.app), d.qualname)
           name == IF d.db_table THEN own ELSE classes[d.meta_of].db_table
           options == [abstract |-> is_abstract(d), db_table |-> name,
                       columns |-> d.columns \cup UNION {classes[b].columns : b \in d.bases},
                       operations |-> d.operations
                                        \cup UNION {classes[b].operations : b \in d.bases}]
       IN  IF d.db_table /\ ~table_name_ok(own)
           THEN /\ failed' = failed \cup {[name |-> d.name, db_table |-> own]}
                /\ UNCHANGED <<classes, tables>>
           ELSE /\ classes' = [c \in DOMAIN classes \cup {d.name} |->
                                  IF c = d.name THEN options ELSE classes[c]]
                /\ tables' = IF options.abstract THEN tables
                             ELSE [c \in DOMAIN tables \cup {d.name} |->
                                     IF c = d.name THEN name ELSE tables[c]]
                /\ UNCHANGED failed
    /\ UNCHANGED <<client, native_obj, constructed, last, pc, frame, ui>>

\* A module of the repository defines one of its record classes.
DefineDeclared == \E d \in Declarations : Define(d)

\* A module defines a further record type.
DefineOther ==
    \E n \in OtherNames, app \in {"data", "model"} :
        /\ DOMAIN classes \cap OtherNames = {}
        /\ Define(OtherRecordType(n, app))

NextDef == DefineDeclared \/ DefineOther

SpecDef == Init /\ [][NextDef]_vars

-----------------------------------------------------------------------------
(* SpecUI: the gradio form of a model-service type.                        *)

uiFrame == <<client, native_obj, constructed, last, pc, frame, defVars>>

\* gradio_ui is read and the interface launched: every component shows its
\* default.
Launch(svc) ==
    /\ ui.stage = "closed"
    /\ ui' = [stage |-> "form", svc |-> svc,
              values |-> [j \in 1..Len(gradio_ui(svc).inputs) |-> gradio_ui(svc).inputs[j].default]]
    /\ UNCHANGED uiFrame

\* The user sets one input component.
Fill ==
    /\ ui.stage = "form"
    /\ \E j \in 1..Len(ui.values) :
         \E v \in gradio_ui(ui.svc).inputs[j].choices :
            ui' = [ui EXCEPT !.values[j] = v]
    /\ UNCHANGED uiFrame

\* The user submits: gradio calls fn with the value of each input
\* component, in the order of `inputs`.
Submit ==
    /\ ui.stage = "form"
    /\ \A j \in 1..Len(ui.values) : ui.values[j] \in gradio_ui(ui.svc).inputs[j].choices
    /\ LET c == call_fn(ui.svc, Len(ui.values))
       IN ui' = [stage |-> "called", svc |-> ui.svc, values |-> ui.values,
                 bound |-> c.bound, outcome |-> c.outcome, error |-> c.error]
    /\ UNCHANGED uiFrame

\* The user leaves the form.
Close ==
    /\ ui.stage # "closed"
    /\ ui' = NoForm
    /\ UNCHANGED uiFrame

NextUI == (\E svc \in Services : Launch(svc)) \/ Fill \/ Submit \/ Close

SpecUI == Init /\ [][NextUI]_vars

-----------------------------------------------------------------------------
(* Properties                                                              *)

\* C1: a predict call on a single item (a str; for the audio classifier a
\* str or an ndarray) that returns, returns one translated string or one
\* label-to-score mapping, never a sequence, and the SDK was handed the
\* item whole in one call, not character by character.
C1_SingleInSingleOut ==
    (/\ last.op = "predict"
     /\ last.outcome = "returned"
     /\ last.input.type \in (IF last.svc = "AudioClassifier"
                             THEN {"str", "ndarray"} ELSE {"str"}))
    => /\ last.result.kind = (IF last.svc = "GoogleTranslate" THEN "str" ELSE "dict")
       /\ Len(last.result.items) = 1
       /\ Len(last.calls) = 1
       /\ IF last.svc = "GoogleTranslate"
          THEN last.calls[1].text = last.input.items[1]
          ELSE last.calls[1].inputs = last.input

C1_Witness ==
    /\ last.op = "predict"
    /\ last.outcome = "returned"
    /\ last.svc = "GoogleTranslate"
    /\ last.input.type = "str"
    /\ last.input.items = << <<"h", "i">> >>
    /\ last.result.kind = "str"

\* C2: a predict call on a list or tuple (of any length, 0 and 1 included)
\* that returns, returns a sequence of the same length whose j-th element is
\* the result for the j-th input element.
C2_SequenceInSequenceOut ==
    (/\ last.op = "predict"
     /\ last.outcome = "returned"
     /\ last.input.type \in {"list", "tuple"})
    => /\ last.result.kind = "list"
       /\ Len(last.result.items) = Len(last.input.items)
       /\ \A j \in 1..Len(last.input.items) :
            last.result.items[j] =
              CASE last.svc = "GoogleTranslate" ->
                     Translated([text |-> last.input.items[j],
                                 src |-> src_or_default(last.src),
                                 dest |-> dest_or_default(last.dest)])
                [] last.svc = "TextClassifier" ->
                     DictOf(TextScores(last.input.items[j]))
                [] last.svc = "AudioClassifier" ->
                     DictOf(AudioScores(last.input.items[j],
                                        n_labels_or_default(last.n_labels)))

C2_Witness ==
    /\ last.op = "predict"
    /\ last.outcome = "returned"
    /\ last.svc = "TextClassifier"
    /\ last.input.type = "tuple"
    /\ last.input.items = << <<"h", "i">>, <<"y">> >>
    /\ Len(last.result.items) = 2

\* C3: in single-threaded use at most one client is ever constructed for a
\* GoogleTranslate instance: the handle is unset or the first object
\* constructed, and a load or predict that starts with the handle set
\* leaves it as it was.
C3_ClientConstructedOnce ==
    \A i \in GTInstances :
        /\ constructed[i] <= 1
        /\ client[i] = (IF constructed[i] = 0 THEN None ELSE 1)
        /\ (/\ last.op \in {"load", "predict"}
            /\ last.svc = "GoogleTranslate"
            /\ last.inst = i
            /\ Truthy(last.pre)) => client[i] = last.pre

C3_Witness ==
    /\ last.op = "load"
    /\ Truthy(last.pre)
    /\ constructed[last.inst] = 1

\* C4: the lazily initialized client is not protected against concurrent
\* first use. With threads interleaved between the test `not self.client`
\* and the assignment, more than one client is constructed for one instance
\* (the witness); what the test still ensures is that each thread constructs
\* at most one, and that the handle holds one of the constructed objects.
C4_UnprotectedInitialization ==
    /\ constructed[self] <= Cardinality(Threads)
    /\ Truthy(client[self]) => client[self] \in 1..constructed[self]
    /\ \A t \in Threads :
         (pc[t] = "store" /\ frame[t].inst = self) => frame[t].obj \in 1..constructed[self]

C4_Witness ==
    /\ constructed[self] > 1
    /\ client[self] = 2

\* C5: a record type whose computed table name is longer than
\* PGSQL_IDENTIFIER_MAX_LEN fails when its class statement runs: it is
\* never defined and never mapped to a table; every record type that is
\* defined has a table name within the limit.
C5_TableNameLength ==
    /\ \A c \in DOMAIN classes : Len(classes[c].db_table) <= PGSQL_IDENTIFIER_MAX_LEN
    /\ \A c \in DOMAIN tables : Len(tables[c]) <= PGSQL_IDENTIFIER_MAX_LEN
    /\ \A f \in failed : f.name \notin DOMAIN classes /\ f.name \notin DOMAIN tables
    /\ \A n \in OtherNames :
         n \in DOMAIN classes =>
           \E app \in {"data", "model"} :
             /\ classes[n].db_table = AppLabel(app) \o "_" \o n
             /\ Len(AppLabel(app)) + 1 + Len(n) <= PGSQL_IDENTIFIER_MAX_LEN

C5_Witness ==
    \E f \in failed :
        /\ Len(f.db_table) = PGSQL_IDENTIFIER_MAX_LEN + 1
        /\ f.name \notin DOMAIN classes

\* C6: when the SDK raises during predict (constructing the client, or in a
\* translate or pipeline call), the caller gets that same exception and no
\* result, and predict makes no further SDK call.
C6_FailurePropagates ==
    (last.op = "predict" /\ last.sdk_error # NoError)
    => /\ last.outcome = "raised"
       /\ last.error = last.sdk_error
       /\ last.result.kind = "none"
       /\ Len(last.calls) <= (IF last.svc = "GoogleTranslate"
                              THEN Len(last.input.items) ELSE 1)

C6_Witness ==
    /\ last.op = "predict"
    /\ last.svc = "GoogleTranslate"
    /\ last.sdk_error = "ConnectError"
    /\ last.outcome = "raised"
    /\ Len(last.calls) = 2

\* C7: every table name a record type of the repository declares is
\* <app label>_<name of the record class>, and no two table-mapped record
\* types share a table name.
C7_TableNameConvention ==
    /\ \A d \in Declarations :
         (d.db_table /\ d.name \in DOMAIN classes)
           => /\ classes[d.name].db_table = AppLabel(d.app) \o "_" \o d.name
              /\ d.name \in DOMAIN tables
              /\ tables[d.name] = classes[d.name].db_table
    /\ \A c1, c2 \in DOMAIN tables : c1 # c2 => tables[c1] # tables[c2]

C7_Witness ==
    /\ {"InDBJSONDataSet", "GoogleTranslate", "PreTrainedHuggingFaceTextClassifier",
        "PreTrainedHuggingFaceAudioClassifier"} \subseteq DOMAIN tables
    /\ tables["InDBJSONDataSet"] = "DjAIData_InDBJSONDataSet"
    /\ tables["PreTrainedHuggingFaceAudioClassifier"]
         = "DjAIModel_PreTrainedHuggingFaceAudioClassifier"

\* C8: the five format-specific dataset types and the file dataset with
\* JSON cache are abstract: once defined, none is mapped to a table, and
\* the columns and operations of each are those of its bases, no more.
C8_AbstractDataSets ==
    \A d \in Declarations :
        (/\ d.name \in {"CSVDataSet", "ImageDataSet", "JSONDataSet", "ParquetDataSet",
                        "VideoDataSet", "_FileDataSetWithInDBJSONCacheABC"}
         /\ d.name \in DOMAIN classes)
        => /\ classes[d.name].abstract
           /\ d.name \notin DOMAIN tables
           /\ classes[d.name].columns = UNION {classes[b].columns : b \in d.bases}
           /\ classes[d.name].operations = UNION {classes[b].operations : b \in d.bases}

C8_Witness ==
    /\ {"CSVDataSet", "ImageDataSet", "JSONDataSet", "ParquetDataSet",
        "VideoDataSet", "_FileDataSetWithInDBJSONCacheABC"} \subseteq DOMAIN classes
    /\ "InDBJSONDataSet" \in DOMAIN tables

\* C9: under every interleaving, a predict call has run load before it
\* reaches the SDK call, the SDK is never invoked through an unset handle,
\* and when a predict call has returned, or has raised from the SDK call,
\* the handle of its instance is set.
C9_LoadBeforeSdkCall ==
    \A t \in Threads :
        /\ pc[t] = "invoke" => (frame[t].loaded /\ Truthy(Handle(frame[t].inst)))
        /\ (frame[t].done > 0 \/ frame[t].sdk_raised) => Truthy(frame[t].via)
        /\ (/\ frame[t].op = "predict"
            /\ (pc[t] = "returned" \/ (pc[t] = "raised" /\ frame[t].sdk_raised)))
           => Truthy(Handle(frame[t].inst))

C9_Witness ==
    /\ pc["t1"] = "returned"
    /\ frame["t1"].op = "predict"
    /\ frame["t1"].inst = self
    /\ frame["t1"].done = 2
    /\ pc["t2"] = "store"
    /\ frame["t2"].inst = self

\* C10: a GoogleTranslate.predict call that returns has made exactly one
\* translate call per input text, in input order, with the src and dest the
\* caller gave: one for a single string, n for a sequence of n texts, none
\* for an empty sequence, and the client is constructed all the same.
C10_OneTranslateCallPerText ==
    (last.op = "predict" /\ last.svc = "GoogleTranslate" /\ last.outcome = "returned")
    => /\ Len(last.calls) = Len(last.input.items)
       /\ \A j \in 1..Len(last.input.items) :
            /\ last.calls[j].text = last.input.items[j]
            /\ last.src # Omitted => last.calls[j].src = last.src
            /\ last.dest # Omitted => last.calls[j].dest = last.dest
       /\ Truthy(client[last.inst])

C10_Witness ==
    /\ last.op = "predict"
    /\ last.svc = "GoogleTranslate"
    /\ last.outcome = "returned"
    /\ last.input.items = << <<"h", "i">>, <<"y">> >>
    /\ last.src = "en"
    /\ last.dest = "fr"
    /\ Len(last.calls) = 2

\* C11: every SDK call of a predict carries the declared defaults where the
\* caller gave nothing (src 'auto' and dest 'en' for GoogleTranslate, top_k 5
\* for the audio classifier) and the caller's value unchanged where one was
\* given; the text classifier always passes return_all_scores=True and
\* function_to_apply=None.
C11_DefaultsForwarded ==
    last.op = "predict" =>
      \A j \in 1..Len(last.calls) :
        CASE last.svc = "GoogleTranslate" ->
               /\ last.calls[j].src = (IF last.src = Omitted THEN "auto" ELSE last.src)
               /\ last.calls[j].dest = (IF last.dest = Omitted THEN "en" ELSE last.dest)
          [] last.svc = "AudioClassifier" ->
               last.calls[j].top_k = (IF last.n_labels = NoArg THEN 5 ELSE last.n_labels)
          [] last.svc = "TextClassifier" ->
               /\ last.calls[j].return_all_scores = TRUE
               /\ last.calls[j].function_to_apply = "None"

C11_Witness ==
    /\ last.op = "predict"
    /\ last.svc = "GoogleTranslate"
    /\ last.src = "en"
    /\ last.dest = Omitted
    /\ Len(last.calls) = 2
    /\ last.calls[2].dest = "en"
    /\ last.calls[2].src = "en"

\* C12: what a classifier's predict hands to the pipeline is the input
\* itself when that is a single item or a list, and a list of the same
\* elements in the same order when it is another sequence; whether one
\* mapping or a list comes back follows the type of the original input.
C12_InputNormalized ==
    (last.op = "predict" /\ last.svc \in {"TextClassifier", "AudioClassifier"}) =>
      LET single == IF last.svc = "TextClassifier"
                    THEN last.input.type = "str"
                    ELSE last.input.type \in {"ndarray", "str"}
      IN  /\ \A j \in 1..Len(last.calls) :
                last.calls[j].inputs =
                    IF single \/ last.input.type = "list"
                    THEN last.input
                    ELSE [type |-> "list", items |-> last.input.items]
          /\ last.outcome = "returned" =>
                last.result.kind = (IF single THEN "dict" ELSE "list")

C12_Witness ==
    /\ last.op = "predict"
    /\ last.svc = "AudioClassifier"
    /\ last.input = [type |-> "tuple", items |-> << <<"y">>, <<"h", "i">> >>]
    /\ last.outcome = "returned"
    /\ last.calls[1].inputs = [type |-> "list", items |-> << <<"y">>, <<"h", "i">> >>]
    /\ Len(last.result.items) = 2

\* C13: each mapping a classifier's predict returns has exactly the labels of
\* the entries the pipeline yielded for that item (for a single text: of the
\* first element of the pipeline's output), and maps each label to the score
\* of the last entry that carries it.
C13_LabelsAndScores ==
    (/\ last.op = "predict"
     /\ last.svc \in {"TextClassifier", "AudioClassifier"}
     /\ last.outcome = "returned") =>
      LET single == last.result.kind = "dict"
          entries(j) == IF ~single THEN last.output[j]
                        ELSE IF last.svc = "TextClassifier" THEN last.output[1]
                        ELSE last.output
      IN  /\ Len(last.result.items) = (IF single THEN 1 ELSE Len(last.output))
          /\ \A j \in 1..Len(last.result.items) :
                /\ DOMAIN last.result.items[j] =
                       {entries(j)[k].label : k \in 1..Len(entries(j))}
                /\ \A k \in 1..Len(entries(j)) :
                       (\A k2 \in (k + 1)..Len(entries(j)) :
                            entries(j)[k2].label # entries(j)[k].label)
                         => last.result.items[j][entries(j)[k].label] = entries(j)[k].score

C13_Witness ==
    /\ last.op = "predict"
    /\ last.svc = "TextClassifier"
    /\ last.input = [type |-> "str", items |-> << <<"y">> >>]
    /\ last.outcome = "returned"
    /\ Len(last.output[1]) = 3
    /\ last.output[1][1].label = last.output[1][3].label
    /\ last.output[1][1].score # last.output[1][3].score
    /\ last.result.items[1]["NEGATIVE"] = last.output[1][3].score

\* What predict returns, on the record of the last call and with an SDK that
\* answers as it did there, for the list [x] of that call's single input x.
PredictOfSingleton ==
    LET w == [type |-> "list", items |-> last.input.items]
    IN  CASE last.svc = "GoogleTranslate" ->
               GoogleTranslate_predict(client[last.inst], constructed[last.inst] + 1, TRUE, w,
                                       src_or_default(last.src), dest_or_default(last.dest),
                                       0, NoError).ret
          [] last.svc = "TextClassifier" ->
               TextClassifier_predict(native_obj[last.inst], constructed[last.inst] + 1,
                                      TRUE, w, FALSE, NoError).ret
          [] last.svc = "AudioClassifier" ->
               AudioClassifier_predict(native_obj[last.inst], constructed[last.inst] + 1,
                                       TRUE, w, n_labels_or_default(last.n_labels),
                                       FALSE, NoError).ret

\* C14: with an SDK that answers the same call the same way, predict(x) for
\* a single item x is the only element of predict([x]) under the same
\* languages or the same n_labels.
C14_SingleEqualsSingleton ==
    (/\ last.op = "predict"
     /\ last.outcome = "returned"
     /\ last.input.type \in {"str", "ndarray"}) =>
        /\ PredictOfSingleton.outcome = "returned"
        /\ PredictOfSingleton.result.kind = "list"
        /\ PredictOfSingleton.result.items = << last.result.items[1] >>

C14_Witness ==
    /\ last.op = "predict"
    /\ last.svc = "GoogleTranslate"
    /\ last.outcome = "returned"
    /\ last.input = [type |-> "str", items |-> << <<"h", "i">> >>]
    /\ last.src = "en"
    /\ last.result.items = << <<"en", "en", "h", "i">> >>
    /\ PredictOfSingleton.result.items = << <<"en", "en", "h", "i">> >>

\* C15: a step changes `client` only on the GoogleTranslate instance whose
\* load or predict it is, and only by a client constructed for that instance
\* in that step; the class keeps its default None, and every other instance
\* keeps what it had.
C15_ClientPerInstance ==
    [][/\ client'[GTClass] = None
       /\ \A k \in GTInstances :
            client'[k] # client[k] =>
              /\ last'.op \in {"load", "predict"}
              /\ last'.svc = "GoogleTranslate"
              /\ last'.inst = k
              /\ constructed'[k] = constructed[k] + 1
       /\ \A k \in GTInstances :
            constructed'[k] # constructed[k] => client'[k] # client[k]]_vars

C15_Witness ==
    /\ last.op = "predict"
    /\ last.svc = "GoogleTranslate"
    /\ last.inst = "gt2"
    /\ last.pre = None
    /\ Truthy(client["gt2"])
    /\ constructed["gt2"] = 1
    /\ client["gt1"] = None
    /\ client[GTClass] = None

\* C16: when GoogleTranslate.predict runs on a sequence and the translate
\* call for its k-th text raises, exactly the calls for the first k texts
\* were made, predict raises and yields no list, not even of the k-1
\* translations it had, and the instance keeps the client it has built.
C16_FailureInSequence ==
    (/\ last.op = "predict"
     /\ last.svc = "GoogleTranslate"
     /\ last.input.type \in {"list", "tuple"}
     /\ last.fail_at \in 1..Len(last.input.items)) =>
        /\ Len(last.calls) = last.fail_at
        /\ \A j \in 1..Len(last.calls) : last.calls[j].text = last.input.items[j]
        /\ last.outcome = "raised"
        /\ last.error = last.sdk_error
        /\ last.result = [kind |-> "none", items |-> <<>>]
        /\ Truthy(client[last.inst])
        /\ Truthy(last.pre) => client[last.inst] = last.pre
        /\ constructed[last.inst] = 1

C16_Witness ==
    /\ last.op = "predict"
    /\ last.svc = "GoogleTranslate"
    /\ last.input = [type |-> "list", items |-> << <<"y">>, <<"h", "i">> >>]
    /\ last.fail_at = 1
    /\ last.pre = None
    /\ Len(last.calls) = 1
    /\ last.outcome = "raised"
    /\ Truthy(client[last.inst])

\* C17: the descriptor of each model-service type declares as many input
\* components as the wrapped function has parameters, and a call of that
\* function with one value per component, in their order, gives every value
\* to the parameter its component is for.
C17_InputsMatchParameters ==
    ui.stage = "called" =>
        /\ Len(gradio_ui(ui.svc).inputs) = Len(gradio_ui(ui.svc).fn)
        /\ Len(ui.bound) = Len(ui.values)
        /\ \A j \in 1..Len(ui.bound) : ui.bound[j] = gradio_ui(ui.svc).inputs[j].param

====
